---- MODULE Spec2Model ----
(***************************************************************************)
(* A model of rkyv's archived hash map (collections/hash_map/mod.rs) and   *)
(* archived shared / weak pointers (rc/mod.rs).                            *)
(*                                                                         *)
(* The archive is a sequence of cells, `mem`; a position is an offset into *)
(* it (0-based).  Keys and values are modelled as out-of-line types (like  *)
(* a string): serializing one appends a data cell and yields its position  *)
(* as the resolver, and resolving one writes a relative pointer to that    *)
(* data.  An Entry<K, V> is two cells, the key field then the value field. *)
(***************************************************************************)
EXTENDS Integers, Sequences, FiniteSets, TLC

\* ------------------------------------------------------------------ bounds
NumKeys == 3
NumValues == 2
MaxLen == 2
NumIds == 3
MaxNodes == 3

Keys == 1..NumKeys
Values == 1..NumValues
MapIds == {1, 2}
\* The source identities of shared values (distinct Rc allocations).
Ids == 1..NumIds

\* ------------------------------------------------------------- option type
None == <<"None">>
Some(x) == <<"Some", x>>
IsSome(o) == o[1] = "Some"
IsNone(o) == o[1] = "None"
Unwrap(o) == o[2]

\* Option::unwrap: panics on None.
Panic == <<"panic">>

\* Plain return values, tagged with their type.
Usize(n) == <<"usize", n>>
Bool(b) == <<"bool", b>>

\* ------------------------------------------------------------------ layout
\* size_of::<Entry<K, V>>() and align_of::<Entry<K, V>>() in cells.
EntrySize == 2
EntryAlign == 2
\* Field offsets inside Entry { key, value }.
KeyField == 0
ValueField == 1
\* Field offsets inside ArchivedHashMap { index, entries }.
IndexField == 0
EntriesField == 1
\* A slot value of the displacement table that answers "no candidate".
NoSlot == 0 - 1
NoPos == 0 - 1

VARIABLES
    mem,      \* the archive buffer written by the serializer
    scratch,  \* the serializer's live scratch allocations (a stack of names)
    log,      \* the serializer calls of the current / last construction
    status,   \* "ok" or "err": the Result of the last construction
    maps,     \* map id -> position of the resolved ArchivedHashMap, or NoPos
    src,      \* map id -> the (key, value) sequence it was built from
    it,       \* the live raw iterator, or None
    yielded,  \* the items the live iterator has returned so far
    calls,    \* the number of next() calls made on the live iterator
    earlier,  \* whether an iterator held before this one was advanced
    ret,      \* the last accessor call and what it returned
    shared,   \* the shared serializer's cache: source identity -> position
    pending,  \* the Rc / Weak resolvers obtained and not yet resolved
    nodes     \* the ArchivedRc / ArchivedRcWeak nodes resolved so far

vars == <<mem, scratch, log, status, maps, src, it, yielded, calls, earlier, ret,
          shared, pending, nodes>>
mapvars == <<scratch, maps, src, it, yielded, calls, earlier>>
rcvars == <<shared, pending, nodes>>

\* ------------------------------------------------------------------ memory
OutOfBounds == <<"oob", 0>>
Cell(m, p) == IF p \in 0..(Len(m) - 1) THEN m[p + 1] ELSE OutOfBounds

\* RelPtr::emplace(from, to, out): the offset is relative to the field's own
\* position.
RelPtrEmplace(from, to) == <<"relptr", to - from>>

\* RelPtr::as_ptr: the field's own position plus the stored offset.
RelPtrAsPtr(m, p) == p + Cell(m, p)[2]

\* The content behind an archived key or value field at position p.
Deref(m, p) == Cell(m, RelPtrAsPtr(m, p))[2]

Max(a, b) == IF a >= b THEN a ELSE b

\* A write of cell c at position p of the buffer (the buffer grows as needed).
Write(m, p, c) ==
    [i \in 1..Max(Len(m), p + 1) |->
        IF i = p + 1 THEN c ELSE IF i <= Len(m) THEN m[i] ELSE <<"uninit", 0>>]

\* -------------------------------------------------------------- serializer
\* A serializer state during one construction: the archive buffer, the live
\* scratch allocations, the calls made so far and the Result of the last one.
\* failAt is the number of the fallible call that returns Err (none if the
\* construction makes fewer calls).
SerState(m, sc, failAt) ==
    [mem |-> m, scratch |-> sc, log |-> <<>>, status |-> "ok", failAt |-> failAt]

\* Every fallible serializer call is recorded with its outcome.
Call(st, name, arg) ==
    LET ok == Len(st.log) # st.failAt
    IN [st EXCEPT !.log = Append(@, [call |-> name, arg |-> arg, ok |-> ok]),
                  !.status = IF ok THEN "ok" ELSE "err"]

Failed(x) == x.st.status = "err"

\* ScratchVec::new(serializer, capacity): takes a scratch allocation.
ScratchVecNew(st, name) ==
    LET s == Call(st, "push_scratch", <<name>>)
    IN IF s.status = "err" THEN [st |-> s, r |-> None]
       ELSE [st |-> [s EXCEPT !.scratch = Append(@, name)], r |-> Some(name)]

\* ScratchVec::free(self, serializer): the explicit release of the allocation.
ScratchVecFree(st, name) ==
    LET s == Call(st, "pop_scratch", <<name>>)
    IN IF s.status = "err" THEN [st |-> s, r |-> None]
       ELSE [st |-> [s EXCEPT !.scratch = SelectSeq(@, LAMBDA a : a # name)],
             r |-> Some(name)]

\* Serialize::serialize for a key: writes the key's data, returns its position.
KeySerialize(st, k) ==
    LET s == Call(st, "serialize_key", <<k>>)
    IN IF s.status = "err" THEN [st |-> s, r |-> NoPos]
       ELSE [st |-> [s EXCEPT !.mem = Append(@, <<"kdata", k>>)], r |-> Len(s.mem)]

\* Serialize::serialize for a value.
ValueSerialize(st, v) ==
    LET s == Call(st, "serialize_value", <<v>>)
    IN IF s.status = "err" THEN [st |-> s, r |-> NoPos]
       ELSE [st |-> [s EXCEPT !.mem = Append(@, <<"vdata", v>>)], r |-> Len(s.mem)]

RECURSIVE Pad(_, _)
Pad(m, align) == IF Len(m) % align = 0 THEN m ELSE Pad(Append(m, <<"pad", 0>>), align)

\* Serializer::align_for::<Entry<K, V>>(): pads the buffer, returns the position.
AlignFor(st) ==
    LET s == Call(st, "align_for", <<>>)
    IN IF s.status = "err" THEN [st |-> s, r |-> NoPos]
       ELSE LET m == Pad(s.mem, EntryAlign)
            IN [st |-> [s EXCEPT !.mem = m], r |-> Len(m)]

\* Entry::resolve: each field is resolved at its own position with its own
\* resolver.
EntryResolve(m, pos, kr, vr) ==
    Write(Write(m, pos + KeyField, RelPtrEmplace(pos + KeyField, kr)),
          pos + ValueField, RelPtrEmplace(pos + ValueField, vr))

\* Serializer::resolve_aligned(&Entry { key, value }, (key_resolver,
\* value_resolver)): writes the archived entry at the current position.
ResolveAligned(st, e, res) ==
    LET s == Call(st, "resolve_aligned", <<e[1], e[2], res[1], res[2]>>)
    IN IF s.status = "err" THEN [st |-> s, r |-> NoPos]
       ELSE [st |-> [s EXCEPT !.mem = EntryResolve(@, Len(@), res[1], res[2])],
             r |-> Len(s.mem)]

\* ------------------------------------------------------------- hash index
\* The displacement tables the index builder may produce for a key set of
\* size n: every key of the set gets its own slot in 0..n-1; a key outside
\* the set gets no candidate or the slot of some other key.
KeysOf(iter) == {iter[i][1] : i \in 1..Len(iter)}

Displacements(iter) ==
    LET n == Len(iter)
    IN {d \in [Keys -> {NoSlot} \cup (0..(n - 1))] :
          /\ \A k \in KeysOf(iter) : d[k] # NoSlot
          /\ \A k1, k2 \in KeysOf(iter) : k1 # k2 => d[k1] # d[k2]}

\* ArchivedHashIndex::build_and_serialize(iter, serializer, &mut entries):
\* writes the displacement table and fills the entries buffer in slot order.
BuildAndSerialize(iter, d, st) ==
    LET s == Call(st, "build_and_serialize", <<>>)
    IN IF s.status = "err" THEN [st |-> s, r |-> None]
       ELSE [st |-> [s EXCEPT !.mem = Append(@, <<"displace", d>>)],
             r |-> Some([index_resolver |-> Len(s.mem),
                         entries |-> [slot \in 1..Len(iter) |->
                            LET i == CHOOSE j \in 1..Len(iter) : d[iter[j][1]] = slot - 1
                            IN iter[i]]])]

\* ArchivedHashIndex::resolve_from_len(len, pos, resolver, out).
HashIndexResolveFromLen(n, pos, resolver, m) ==
    Write(m, pos, <<"index", n, resolver - pos>>)

\* ArchivedHashIndex::len.
hash_index_len(m, p) == Cell(m, p)[2]

\* ArchivedHashIndex::index(k): the candidate slot of a key, if any.
hash_index_index(m, p, k) ==
    IF hash_index_len(m, p) = 0 THEN None
    ELSE LET d == Cell(m, p + Cell(m, p)[3])[2][k]
         IN IF d = NoSlot THEN None ELSE Some(d)

\* ------------------------------------------------- serialize_from_iter
\* Faulty variant of SerializeEntries: the value is serialized before the key.
RECURSIVE SerializeEntriesValueFirst(_, _, _, _)
SerializeEntriesValueFirst(st, entries, i, resolvers) ==
    IF i > Len(entries) THEN [st |-> st, r |-> resolvers]
    ELSE LET v == ValueSerialize(st, entries[i][2])
         IN IF Failed(v) THEN [st |-> v.st, r |-> resolvers]
            ELSE LET k == KeySerialize(v.st, entries[i][1])
                 IN IF Failed(k) THEN [st |-> k.st, r |-> resolvers]
                    ELSE SerializeEntriesValueFirst(k.st, entries, i + 1,
                                                    Append(resolvers, <<k.r, v.r>>))

\* for (key, value) in entries.iter() { resolvers.push((key.serialize(..)?,
\* value.serialize(..)?)) }: the key first, then the value, entry by entry.
RECURSIVE SerializeEntries(_, _, _, _)
SerializeEntries(st, entries, i, resolvers) ==
    IF i > Len(entries) THEN [st |-> st, r |-> resolvers]
    ELSE LET k == KeySerialize(st, entries[i][1])
         IN IF Failed(k) THEN [st |-> k.st, r |-> resolvers]
            ELSE LET v == ValueSerialize(k.st, entries[i][2])
                 IN IF Failed(v) THEN [st |-> v.st, r |-> resolvers]
                    ELSE SerializeEntries(v.st, entries, i + 1,
                                          Append(resolvers, <<k.r, v.r>>))

\* Faulty variant of ResolveEntries: the resolvers are drained from the back,
\* so an entry is paired with the resolvers of another one.
RECURSIVE ResolveEntriesReversed(_, _, _, _)
ResolveEntriesReversed(st, entries, resolvers, i) ==
    IF i > Len(entries) \/ i > Len(resolvers) THEN [st |-> st, r |-> i - 1]
    ELSE LET e == ResolveAligned(st, entries[i], resolvers[Len(resolvers) + 1 - i])
         IN IF Failed(e) THEN [st |-> e.st, r |-> i - 1]
            ELSE ResolveEntriesReversed(e.st, entries, resolvers, i + 1)

\* for ((key, value), (key_resolver, value_resolver)) in
\* entries.drain(..).zip(resolvers.drain(..)) { serializer.resolve_aligned(..)? }
RECURSIVE ResolveEntries(_, _, _, _)
ResolveEntries(st, entries, resolvers, i) ==
    IF i > Len(entries) \/ i > Len(resolvers) THEN [st |-> st, r |-> i - 1]
    ELSE LET e == ResolveAligned(st, entries[i], resolvers[i])
         IN IF Failed(e) THEN [st |-> e.st, r |-> i - 1]
            ELSE ResolveEntries(e.st, entries, resolvers, i + 1)

\* ArchivedHashMap::serialize_from_iter(iter, serializer).  d is the
\* displacement table the index builder comes up with.  Every `?` returns the
\* error at once; the result is the HashMapResolver, or None on Err.
serialize_from_iter(iter, d, st0) ==
    LET a == ScratchVecNew(st0, "entries")
    IN IF Failed(a) THEN [st |-> a.st, r |-> None] ELSE
    LET b == BuildAndSerialize(iter, d, a.st)
    IN IF Failed(b) THEN [st |-> b.st, r |-> None] ELSE
    LET entries == Unwrap(b.r).entries
        c == ScratchVecNew(b.st, "resolvers")
    IN IF Failed(c) THEN [st |-> c.st, r |-> None] ELSE
    LET e == SerializeEntries(c.st, entries, 1, <<>>)
    IN IF Failed(e) THEN [st |-> e.st, r |-> None] ELSE
    LET f == AlignFor(e.st)
    IN IF Failed(f) THEN [st |-> f.st, r |-> None] ELSE
    LET g == ResolveEntries(f.st, entries, e.r, 1)
    IN IF Failed(g) THEN [st |-> g.st, r |-> None] ELSE
    LET h == ScratchVecFree(g.st, "resolvers")
    IN IF Failed(h) THEN [st |-> h.st, r |-> None] ELSE
    LET j == ScratchVecFree(h.st, "entries")
    IN IF Failed(j) THEN [st |-> j.st, r |-> None] ELSE
    [st |-> j.st,
     r |-> Some([index_resolver |-> Unwrap(b.r).index_resolver, entries_pos |-> f.r])]

\* ArchivedHashMap::resolve_from_len(len, pos, resolver, out).
resolve_from_len(n, pos, resolver, m) ==
    LET m1 == HashIndexResolveFromLen(n, pos + IndexField, resolver.index_resolver, m)
    IN Write(m1, pos + EntriesField,
             RelPtrEmplace(pos + EntriesField, resolver.entries_pos))

\* ------------------------------------------------------- read accessors
\* ArchivedHashMap::len.
len(m, p) == hash_index_len(m, p + IndexField)

\* ArchivedHashMap::is_empty.
is_empty(m, p) == len(m, p) = 0

\* ArchivedHashMap::entry(index): entries.as_ptr().add(index).
entry(m, p, i) == RelPtrAsPtr(m, p + EntriesField) + i * EntrySize

\* entry.key.borrow() == k
KeyEq(m, e, k) == Deref(m, e + KeyField) = k

\* Faulty variant of find: the candidate slot is returned without comparing
\* the stored key.
find_unchecked(m, p, k) ==
    LET c == hash_index_index(m, p + IndexField, k)
    IN IF IsNone(c) THEN None ELSE Some(Unwrap(c))

\* ArchivedHashMap::find.
find(m, p, k) ==
    LET c == hash_index_index(m, p + IndexField, k)
    IN IF IsNone(c) THEN None
       ELSE IF KeyEq(m, entry(m, p, Unwrap(c)), k) THEN Some(Unwrap(c)) ELSE None

\* Option::map.
OptMap(o, F(_)) == IF IsSome(o) THEN Some(F(Unwrap(o))) ELSE None

\* ArchivedHashMap::get_key_value: references to the key and value fields.
get_key_value(m, p, k) ==
    LET F(i) == <<entry(m, p, i) + KeyField, entry(m, p, i) + ValueField>>
    IN OptMap(find(m, p, k), F)

\* ArchivedHashMap::get_key_value_pin.
get_key_value_pin(m, p, k) ==
    LET F(i) == <<entry(m, p, i) + KeyField, entry(m, p, i) + ValueField>>
    IN OptMap(find(m, p, k), F)

\* ArchivedHashMap::contains_key.
contains_key(m, p, k) == IsSome(find(m, p, k))

\* ArchivedHashMap::get: a reference to the value field.
get(m, p, k) ==
    LET F(i) == entry(m, p, i) + ValueField
    IN OptMap(find(m, p, k), F)

\* Faulty variant of get_pin: the reference handed out is to the key field.
get_pin_key(m, p, k) ==
    LET F(i) == entry(m, p, i) + KeyField
    IN OptMap(find(m, p, k), F)

\* ArchivedHashMap::get_pin.
get_pin(m, p, k) ==
    LET F(i) == entry(m, p, i) + ValueField
    IN OptMap(find(m, p, k), F)

\* Faulty variant of index: a missing key yields the first value instead of
\* a panic.
index_unwrap_or_first(m, p, k) ==
    LET g == get(m, p, k)
    IN IF IsSome(g) THEN g ELSE Some(entry(m, p, 0) + ValueField)

\* Index<&Q> for ArchivedHashMap: self.get(key).unwrap().
index(m, p, k) ==
    LET g == get(m, p, k)
    IN IF IsSome(g) THEN g ELSE Panic

\* --------------------------------------------------------------- iterators
\* RawIter::new / RawIterPin::new(pairs, len).
RawIterNew(pairs, n) == [current |-> pairs, remaining |-> n]

\* ArchivedHashMap::raw_iter / raw_iter_pin.
raw_iter(m, p) == RawIterNew(RelPtrAsPtr(m, p + EntriesField), len(m, p))

\* Faulty variant of RawIterNext: the iterator stops one entry early.
RawIterNextShort(r) ==
    IF r.remaining <= 1 THEN [it |-> r, item |-> None]
    ELSE [it |-> [current |-> r.current + EntrySize, remaining |-> r.remaining - 1],
          item |-> Some(r.current)]

\* Faulty variant of RawIterNext: the remaining count is not tested, so the
\* cursor keeps advancing past the last entry.
RawIterNextUnguarded(r) ==
    [it |-> [current |-> r.current + EntrySize, remaining |-> r.remaining - 1],
     item |-> Some(r.current)]

\* RawIter::next / RawIterPin::next: the entry pointer under the cursor.
RawIterNext(r) ==
    IF r.remaining = 0 THEN [it |-> r, item |-> None]
    ELSE [it |-> [current |-> r.current + EntrySize, remaining |-> r.remaining - 1],
          item |-> Some(r.current)]

\* RawIter::size_hint.
size_hint(r) == <<r.remaining, Some(r.remaining)>>

\* Iter::next / IterPin::next map the entry pointer to (&key, &value),
\* Keys::next to &key, Values::next / ValuesPin::next to &value.
ItemOf(kind, x) ==
    IF kind \in {"iter", "iter_pin"} THEN <<x + KeyField, x + ValueField>>
    ELSE IF kind = "keys" THEN x + KeyField
    ELSE x + ValueField

\* The reference to the key in an item of iter / iter_pin / keys.
ItemKey(kind, item) == IF kind = "keys" THEN item ELSE item[1]

\* The reference to the value in an item of iter / iter_pin / values / values_pin.
ItemValue(kind, item) == IF kind \in {"iter", "iter_pin"} THEN item[2] ELSE item

\* ---------------------------------------------------------------- equality
\* self.iter().all(|(key, value)| other.get(key).map_or(false, |v| *value == *v))
RECURSIVE IterAll(_, _, _)
IterAll(m, r, other) ==
    LET n == RawIterNext(r)
    IN IF IsNone(n.item) THEN TRUE
       ELSE LET kv == ItemOf("iter", Unwrap(n.item))
                g == get(m, other, Deref(m, kv[1]))
            IN IF IsSome(g) /\ Deref(m, kv[2]) = Deref(m, Unwrap(g))
               THEN IterAll(m, n.it, other)
               ELSE FALSE

\* Faulty variant of eq: the lengths are not compared.
eq_no_len(m, self, other) == IterAll(m, raw_iter(m, self), other)

\* PartialEq for ArchivedHashMap: eq.
eq(m, self, other) ==
    IF len(m, self) # len(m, other) THEN FALSE ELSE IterAll(m, raw_iter(m, self), other)

\* A write of content v through a pinned reference to an archived value.
WritePinned(m, vref, v) ==
    LET t == RelPtrAsPtr(m, vref)
    IN Write(m, t, <<Cell(m, t)[1], v>>)

\* ------------------------------------------------------- shared pointers
\* Field offset of the RelPtr inside ArchivedRc (repr(transparent)).
RcField == 0
\* Field offsets inside ArchivedRcWeakVariantSome(tag, ArchivedRc) (repr(C)).
WeakTagField == 0
WeakRcField == 1
\* ArchivedRcWeakTag::None and ArchivedRcWeakTag::Some.
TagNone == 0
TagSome == 1
\* Sizes of ArchivedRc and ArchivedRcWeak in cells.
RcSize == 1
WeakSize == 2

\* The content of the shared value with a given identity: the identities 1
\* and 2 are distinct allocations of equal content.
ContentOf(id) == (id + 1) \div 2

\* A shared serializer state: the buffer, the identity cache, the calls made.
RcState(m, sh, lg, failAt) ==
    [mem |-> m, shared |-> sh, log |-> lg, status |-> "ok", failAt |-> failAt]

\* Serializer::serialize_unsized: writes the body of the value.
SerializeUnsized(st, id) ==
    LET s == Call(st, "serialize_unsized", <<id>>)
    IN IF s.status = "err" THEN [st |-> s, r |-> NoPos]
       ELSE [st |-> [s EXCEPT !.mem = Append(@, <<"body", ContentOf(id)>>)],
             r |-> Len(s.mem)]

\* SharedSerializer::serialize_shared(value): the position already assigned
\* to the value's identity, or else the body is serialized and its position
\* registered.
SerializeShared(st, id) ==
    LET s == Call(st, "serialize_shared", <<id>>)
    IN IF s.status = "err" THEN [st |-> s, r |-> NoPos]
       ELSE IF s.shared[id] # NoPos THEN [st |-> s, r |-> s.shared[id]]
       ELSE LET b == SerializeUnsized(s, id)
            IN IF Failed(b) THEN b
               ELSE [st |-> [b.st EXCEPT !.shared[id] = b.r], r |-> b.r]

\* SerializeUnsized::serialize_metadata(serializer).
SerializeMetadata(st, id) ==
    LET s == Call(st, "serialize_metadata", <<id>>)
    IN IF s.status = "err" THEN [st |-> s, r |-> None] ELSE [st |-> s, r |-> Some(<<>>)]

\* Faulty variant of rc_serialize_from_ref: the value is serialized directly,
\* not through the shared serializer.
rc_serialize_unshared(st, id) ==
    LET a == SerializeUnsized(st, id)
    IN IF Failed(a) THEN [st |-> a.st, r |-> None] ELSE
    LET b == SerializeMetadata(a.st, id)
    IN IF Failed(b) THEN [st |-> b.st, r |-> None] ELSE
    [st |-> b.st, r |-> Some([pos |-> a.r, metadata_resolver |-> Unwrap(b.r)])]

\* ArchivedRc::serialize_from_ref(value, serializer): the RcResolver.
rc_serialize_from_ref(st, id) ==
    LET a == SerializeShared(st, id)
    IN IF Failed(a) THEN [st |-> a.st, r |-> None] ELSE
    LET b == SerializeMetadata(a.st, id)
    IN IF Failed(b) THEN [st |-> b.st, r |-> None] ELSE
    [st |-> b.st, r |-> Some([pos |-> a.r, metadata_resolver |-> Unwrap(b.r)])]

\* ArchiveUnsized::resolve_unsized(from, to, metadata_resolver, out).
ResolveUnsized(m, from, to) == Write(m, from, RelPtrEmplace(from, to))

\* ArchivedRc::resolve_from_ref(value, pos, resolver, out).
rc_resolve_from_ref(m, pos, resolver) == ResolveUnsized(m, pos + RcField, resolver.pos)

\* ArchivedRc::get: the position of the referenced value.
rc_get(m, p) == RelPtrAsPtr(m, p + RcField)

\* ArchivedRcWeak::serialize_from_ref(value, serializer): the RcWeakResolver.
weak_serialize_from_ref(st, value) ==
    IF IsNone(value) THEN [st |-> st, r |-> Some(None)]
    ELSE LET a == rc_serialize_from_ref(st, Unwrap(value))
         IN IF Failed(a) THEN [st |-> a.st, r |-> None]
            ELSE [st |-> a.st, r |-> Some(Some(Unwrap(a.r)))]

\* Faulty variant of weak_resolve_from_ref: the ArchivedRc is resolved at the
\* position of the enum, not of its field.
weak_resolve_no_offset(m, pos, resolver) ==
    IF IsNone(resolver) THEN Write(m, pos + WeakTagField, <<"tag", TagNone>>)
    ELSE rc_resolve_from_ref(Write(m, pos + WeakTagField, <<"tag", TagSome>>),
                             pos, Unwrap(resolver))

\* ArchivedRcWeak::resolve_from_ref(value, pos, resolver, out).
weak_resolve_from_ref(m, pos, resolver) ==
    IF IsNone(resolver) THEN Write(m, pos + WeakTagField, <<"tag", TagNone>>)
    ELSE rc_resolve_from_ref(Write(m, pos + WeakTagField, <<"tag", TagSome>>),
                             pos + WeakRcField, Unwrap(resolver))

\* ArchivedRcWeak::upgrade: a reference to the ArchivedRc inside, if any.
upgrade(m, p) ==
    IF Cell(m, p + WeakTagField) = <<"tag", TagNone>> THEN None
    ELSE Some(p + WeakRcField)

\* The uninitialized output a value of the given size is resolved into.
RECURSIVE Reserve(_, _)
Reserve(m, n) == IF n = 0 THEN m ELSE Reserve(Append(m, <<"uninit", 0>>), n - 1)

\* ------------------------------------------------------------------ state
NoRet == [op |-> "none", map |-> 0, key |-> 0, val |-> None]

Init ==
    /\ mem = <<>>
    /\ scratch = <<>>
    /\ log = <<>>
    /\ status = "ok"
    /\ maps = [id \in MapIds |-> NoPos]
    /\ src = [id \in MapIds |-> <<>>]
    /\ it = None
    /\ yielded = <<>>
    /\ calls = 0
    /\ earlier = FALSE
    /\ ret = NoRet
    /\ shared = [id \in Ids |-> NoPos]
    /\ pending = <<>>
    /\ nodes = <<>>

\* The exact-size iterators of (key, value) pairs with unique keys.
Inputs ==
    UNION {{s \in [1..n -> Keys \X Values] :
              \A i, j \in 1..n : i # j => s[i][1] # s[j][1]} : n \in 0..MaxLen}

\* The fallible calls a construction over n pairs makes when none fails.
NumCalls(n) == 3 * n + 6

\* One map is serialized into the archive and then resolved at the end of it.
\* An Err ends the session: the archive is abandoned as it stands.
Construct(id) ==
    /\ status = "ok"
    /\ maps[id] = NoPos
    /\ it = None
    /\ \E iter \in Inputs :
       \E d \in Displacements(iter) :
       \E failAt \in 0..NumCalls(Len(iter)) :
       \E res \in {serialize_from_iter(iter, d, SerState(mem, scratch, failAt))} :
          LET pos == Len(res.st.mem)
          IN /\ scratch' = res.st.scratch
             /\ log' = res.st.log
             /\ status' = res.st.status
             /\ IF IsSome(res.r)
                THEN /\ mem' = resolve_from_len(Len(iter), pos, Unwrap(res.r), res.st.mem)
                     /\ maps' = [maps EXCEPT ![id] = pos]
                     /\ src' = [src EXCEPT ![id] = iter]
                ELSE /\ mem' = res.st.mem
                     /\ maps' = [i \in MapIds |-> NoPos]
                     /\ src' = [i \in MapIds |-> <<>>]
    /\ ret' = NoRet
    /\ UNCHANGED <<it, yielded, calls, earlier>>
    /\ UNCHANGED rcvars

SerializeFromIter == Construct(1)

Built == {id \in MapIds : maps[id] # NoPos}

\* A shared borrow of the map: no pinned iterator is live.
SharedOk == IF IsNone(it) THEN TRUE ELSE ~Unwrap(it).pin

\* A read of the archive: its result is held in ret until it is dropped.
Accessor(op, id, k, val) ==
    /\ ret.op = "none"
    /\ ret' = [op |-> op, map |-> id, key |-> k, val |-> val]
    /\ UNCHANGED <<mem, scratch, log, status, maps, src, it, yielded, calls, earlier>>
    /\ UNCHANGED rcvars

Len_ == \E id \in Built : SharedOk /\ Accessor("len", id, 0, Usize(len(mem, maps[id])))

IsEmpty == \E id \in Built : SharedOk /\ Accessor("is_empty", id, 0, Bool(is_empty(mem, maps[id])))

Get == \E id \in Built, k \in Keys : SharedOk /\ Accessor("get", id, k, get(mem, maps[id], k))

GetKeyValue ==
    \E id \in Built, k \in Keys :
        SharedOk /\ Accessor("get_key_value", id, k, get_key_value(mem, maps[id], k))

ContainsKey ==
    \E id \in Built, k \in Keys :
        SharedOk /\ Accessor("contains_key", id, k, Bool(contains_key(mem, maps[id], k)))

IndexOp ==
    \E id \in Built, k \in Keys : SharedOk /\ Accessor("index", id, k, index(mem, maps[id], k))

\* An exclusive borrow of the map: no iterator is live.
GetPin ==
    \E id \in Built, k \in Keys :
        IsNone(it) /\ Accessor("get_pin", id, k, get_pin(mem, maps[id], k))

GetKeyValuePin ==
    \E id \in Built, k \in Keys :
        IsNone(it) /\ Accessor("get_key_value_pin", id, k, get_key_value_pin(mem, maps[id], k))

\* The result of the last call goes out of scope.
DropResult ==
    /\ ret.op # "none"
    /\ ret' = NoRet
    /\ UNCHANGED <<mem, scratch, log, status, maps, src, it, yielded, calls, earlier>>
    /\ UNCHANGED rcvars

\* The second map of the archive, built after the first.
SerializeOther == maps[1] # NoPos /\ Construct(2)

\* a == b on two maps of the archive.
EqOp ==
    \E a \in Built, b \in Built :
        SharedOk /\ Accessor("eq", a, b, Bool(eq(mem, maps[a], maps[b])))

\* iter / keys / values / iter_pin / values_pin: a fresh iterator at the
\* start of the entries, replacing the one held before.
NewIter(kind, pin) ==
    \E id \in Built :
        /\ it' = Some([kind |-> kind, pin |-> pin, map |-> id,
                       raw |-> raw_iter(mem, maps[id])])
        /\ yielded' = <<>>
        /\ calls' = 0
        /\ earlier' = (earlier \/ calls > 0)
        /\ ret' = [op |-> kind, map |-> id, key |-> 0, val |-> None]
        /\ UNCHANGED <<mem, scratch, log, status, maps, src>>
        /\ UNCHANGED rcvars

CallIter == SharedOk /\ NewIter("iter", FALSE)

CallKeys == SharedOk /\ NewIter("keys", FALSE)

CallValues == SharedOk /\ NewIter("values", FALSE)

CallIterPin == IsNone(it) /\ NewIter("iter_pin", TRUE)

CallValuesPin == IsNone(it) /\ NewIter("values_pin", TRUE)

\* The number of next() calls followed on one iterator: past the end of the
\* longest map, and once more.
MaxCalls == MaxLen + 2

\* next() on the live iterator of the given kind.
IterStep(kind) ==
    /\ IsSome(it)
    /\ Unwrap(it).kind = kind
    /\ calls < MaxCalls
    /\ calls' = calls + 1
    /\ UNCHANGED earlier
    /\ LET i == Unwrap(it)
           n == RawIterNext(i.raw)
           item == IF IsSome(n.item) THEN Some(ItemOf(kind, Unwrap(n.item))) ELSE None
       IN /\ it' = Some([i EXCEPT !.raw = n.it])
          /\ yielded' = IF IsSome(item) THEN Append(yielded, Unwrap(item)) ELSE yielded
          /\ ret' = [op |-> "next", map |-> i.map, key |-> 0, val |-> item]
    /\ UNCHANGED <<mem, scratch, log, status, maps, src>>
    /\ UNCHANGED rcvars

IterNext == IterStep("iter")

KeysNext == IterStep("keys")

ValuesNext == IterStep("values")

IterPinNext == IterStep("iter_pin")

ValuesPinNext == IterStep("values_pin")

\* The iterator and the items it handed out go out of scope.
DropIter ==
    /\ IsSome(it)
    /\ it' = None
    /\ yielded' = <<>>
    /\ calls' = 0
    /\ earlier' = (earlier \/ calls > 0)
    /\ ret' = NoRet
    /\ UNCHANGED <<mem, scratch, log, status, maps, src>>
    /\ UNCHANGED rcvars

\* The caller writes through the Pin<&mut V> that get_pin or
\* get_key_value_pin just returned.
WriteReturned ==
    /\ ret.op \in {"get_pin", "get_key_value_pin"}
    /\ IsSome(ret.val)
    /\ \E v \in Values :
         mem' = WritePinned(mem, IF ret.op = "get_pin" THEN Unwrap(ret.val)
                                 ELSE Unwrap(ret.val)[2], v)
    /\ UNCHANGED <<scratch, log, status, maps, src, it, yielded, calls, earlier, ret>>
    /\ UNCHANGED rcvars

\* The caller writes through a Pin<&mut V> that the live pinned iterator
\* has handed out.
WriteYielded ==
    /\ IsSome(it)
    /\ Unwrap(it).pin
    /\ \E j \in 1..Len(yielded), v \in Values :
         mem' = WritePinned(mem, ItemValue(Unwrap(it).kind, yielded[j]), v)
    /\ UNCHANGED <<scratch, log, status, maps, src, it, yielded, calls, earlier, ret>>
    /\ UNCHANGED rcvars

Next ==
    \/ SerializeFromIter
    \/ Len_
    \/ IsEmpty
    \/ Get
    \/ GetKeyValue
    \/ ContainsKey
    \/ IndexOp
    \/ GetPin
    \/ GetKeyValuePin
    \/ DropResult

Spec == Init /\ [][Next]_vars

\* Two maps in one archive and their comparison.
NextEq ==
    \/ SerializeFromIter
    \/ SerializeOther
    \/ EqOp
    \/ DropResult

SpecEq == Init /\ [][NextEq]_vars

\* One map, its iterators and its pinned accessors.
NextIter ==
    \/ SerializeFromIter
    \/ CallIter
    \/ CallKeys
    \/ CallValues
    \/ CallIterPin
    \/ CallValuesPin
    \/ IterNext
    \/ KeysNext
    \/ ValuesNext
    \/ IterPinNext
    \/ ValuesPinNext
    \/ DropIter
    \/ GetPin
    \/ GetKeyValuePin
    \/ WriteReturned
    \/ WriteYielded
    \/ DropResult

SpecIter == Init /\ [][NextIter]_vars

\* ------------------------------------------------- shared pointer session
\* The fallible calls one serialize_from_ref makes: at most serialize_shared,
\* serialize_unsized and serialize_metadata.  failAt ranges over them and
\* over one more, for no failure.
RcFailPoints == {Len(log) + i : i \in 0..3}

RcRoom == status = "ok" /\ Len(pending) + Len(nodes) < MaxNodes

\* ArchivedRc::serialize_from_ref on a shared value.
RcSerialize ==
    /\ RcRoom
    /\ \E id \in Ids, failAt \in RcFailPoints :
       \E res \in {rc_serialize_from_ref(RcState(mem, shared, log, failAt), id)} :
          /\ mem' = res.st.mem
          /\ shared' = res.st.shared
          /\ log' = res.st.log
          /\ status' = res.st.status
          /\ pending' = IF IsSome(res.r)
                        THEN Append(pending, [kind |-> "rc", value |-> Some(id),
                                              resolver |-> Unwrap(res.r),
                                              calls |-> Len(res.st.log) - Len(log)])
                        ELSE pending
    /\ ret' = NoRet
    /\ UNCHANGED <<nodes, mapvars>>

\* ArchivedRcWeak::serialize_from_ref on a null or live weak pointer.
WeakSerialize ==
    /\ RcRoom
    /\ \E value \in {None} \cup {Some(id) : id \in Ids}, failAt \in RcFailPoints :
       \E res \in {weak_serialize_from_ref(RcState(mem, shared, log, failAt), value)} :
          /\ mem' = res.st.mem
          /\ shared' = res.st.shared
          /\ log' = res.st.log
          /\ status' = res.st.status
          /\ pending' = IF IsSome(res.r)
                        THEN Append(pending, [kind |-> "weak", value |-> value,
                                              resolver |-> Unwrap(res.r),
                                              calls |-> Len(res.st.log) - Len(log)])
                        ELSE pending
    /\ ret' = NoRet
    /\ UNCHANGED <<nodes, mapvars>>

\* The oldest pending resolver is resolved into fresh output at the end of
\* the archive.
ResolveHead(kind) ==
    /\ status = "ok"
    /\ pending # <<>>
    /\ Head(pending).kind = kind
    /\ LET h == Head(pending)
           pos == Len(mem)
       IN /\ mem' = IF kind = "rc"
                    THEN rc_resolve_from_ref(Reserve(mem, RcSize), pos, h.resolver)
                    ELSE weak_resolve_from_ref(Reserve(mem, WeakSize), pos, h.resolver)
          /\ nodes' = Append(nodes, [kind |-> kind, value |-> h.value, pos |-> pos,
                                     resolver |-> h.resolver, calls |-> h.calls])
    /\ pending' = Tail(pending)
    /\ ret' = NoRet
    /\ UNCHANGED <<shared, log, status, mapvars>>

RcResolve == ResolveHead("rc")

WeakResolve == ResolveHead("weak")

\* ArchivedRcWeak::upgrade on a resolved weak node.
Upgrade ==
    /\ ret.op = "none"
    /\ \E j \in 1..Len(nodes) :
         /\ nodes[j].kind = "weak"
         /\ ret' = [op |-> "upgrade", map |-> j, key |-> 0, val |-> upgrade(mem, nodes[j].pos)]
    /\ UNCHANGED <<mem, log, status, rcvars, mapvars>>

\* ArchivedRc::get on a resolved shared node.
RcGet ==
    /\ ret.op = "none"
    /\ \E j \in 1..Len(nodes) :
         /\ nodes[j].kind = "rc"
         /\ ret' = [op |-> "rc_get", map |-> j, key |-> 0, val |-> Some(rc_get(mem, nodes[j].pos))]
    /\ UNCHANGED <<mem, log, status, rcvars, mapvars>>

NextRc ==
    \/ RcSerialize
    \/ WeakSerialize
    \/ RcResolve
    \/ WeakResolve
    \/ Upgrade
    \/ RcGet
    \/ DropResult

SpecRc == Init /\ [][NextRc]_vars

\* ------------------------------------------------------------------ claims
\* The value the input pairs a key with.
SrcValue(iter, k) == iter[CHOOSE j \in 1..Len(iter) : iter[j][1] = k][2]

\* The key the index assigns to slot i (0-based) of a built map.
KeyAtSlot(id, i) ==
    CHOOSE k \in KeysOf(src[id]) :
        hash_index_index(mem, maps[id] + IndexField, k) = Some(i)

\* C1: round trip with no false negatives.  For every resolved map, len() is
\* the number of input pairs, and for every input pair (k, v) contains_key(k)
\* is true and get(k) is a reference to archived value data holding exactly v,
\* in the entry whose stored key is k.
C1_RoundTrip ==
    \A id \in Built :
        /\ len(mem, maps[id]) = Len(src[id])
        /\ \A i \in 1..Len(src[id]) :
             LET k == src[id][i][1]
                 v == src[id][i][2]
                 g == get(mem, maps[id], k)
             IN /\ contains_key(mem, maps[id], k)
                /\ IsSome(g)
                /\ Cell(mem, RelPtrAsPtr(mem, Unwrap(g))) = <<"vdata", v>>
                /\ Deref(mem, Unwrap(g) - ValueField + KeyField) = k
        /\ (ret.op = "get" /\ ret.map = id /\ ret.key \in KeysOf(src[id]))
              => /\ IsSome(ret.val)
                 /\ Deref(mem, Unwrap(ret.val)) = SrcValue(src[id], ret.key)

\* C1 witness: get was called for a key of a two-entry map whose two values
\* differ, and returned a value.
C1_Witness ==
    /\ ret.op = "get"
    /\ ret.map \in Built
    /\ Len(src[ret.map]) = 2
    /\ src[ret.map][1][2] # src[ret.map][2][2]
    /\ ret.key \in KeysOf(src[ret.map])
    /\ IsSome(ret.val)

\* C2: bounded false positives.  For every key outside the construction key
\* set, get, get_key_value, get_pin and get_key_value_pin return None and
\* contains_key is false, whether or not the index names a candidate slot.
C2_NoFalsePositives ==
    \A id \in Built :
        /\ \A k \in Keys \ KeysOf(src[id]) :
             /\ get(mem, maps[id], k) = None
             /\ get_key_value(mem, maps[id], k) = None
             /\ get_pin(mem, maps[id], k) = None
             /\ get_key_value_pin(mem, maps[id], k) = None
             /\ ~contains_key(mem, maps[id], k)
        /\ (/\ ret.op \in {"get", "get_key_value", "get_pin", "get_key_value_pin"}
            /\ ret.map = id
            /\ ret.key \notin KeysOf(src[id])) => ret.val = None
        /\ (ret.op = "contains_key" /\ ret.map = id /\ ret.key \notin KeysOf(src[id]))
              => ret.val = Bool(FALSE)

\* C2 witness: get_pin returned None for an absent key whose candidate slot
\* is occupied by another key.
C2_Witness ==
    /\ ret.op = "get_pin"
    /\ ret.map \in Built
    /\ ret.key \notin KeysOf(src[ret.map])
    /\ IsSome(hash_index_index(mem, maps[ret.map] + IndexField, ret.key))
    /\ ret.val = None

\* C3: resource exhaustion.  When serialize_from_iter returns Err, the
\* failing call is the last serializer call made, and no scratch buffer is
\* still allocated.
C3_ScratchReleasedOnError ==
    status = "err" =>
        /\ \A i \in 1..Len(log) : log[i].ok <=> i < Len(log)
        /\ scratch = <<>>

C10_ConstructionOrder ==
    (status = "ok" /\ maps[1] # NoPos /\ maps[2] = NoPos) =>
        LET n == Len(src[1])
            p == maps[1]
            K(i) == KeyAtSlot(1, i - 1)
            V(i) == SrcValue(src[1], K(i))
        IN /\ Len(log) = NumCalls(n)
           /\ \A i \in 1..Len(log) : log[i].ok
           /\ log[1].call = "push_scratch" /\ log[1].arg = <<"entries">>
           /\ log[2].call = "build_and_serialize"
           /\ log[3].call = "push_scratch" /\ log[3].arg = <<"resolvers">>
           /\ \A i \in 1..n :
                /\ log[2 + 2 * i].call = "serialize_key"
                /\ log[2 + 2 * i].arg = <<K(i)>>
                /\ log[3 + 2 * i].call = "serialize_value"
                /\ log[3 + 2 * i].arg = <<V(i)>>
           /\ log[4 + 2 * n].call = "align_for"
           /\ \A i \in 1..n :
                LET c == log[4 + 2 * n + i]
                    e == entry(mem, p, i - 1)
                IN /\ c.call = "resolve_aligned"
                   /\ c.arg[1] = K(i) /\ c.arg[2] = V(i)
                   /\ Cell(mem, c.arg[3]) = <<"kdata", K(i)>>
                   /\ Cell(mem, c.arg[4]) = <<"vdata", V(i)>>
                   /\ RelPtrAsPtr(mem, e + KeyField) = c.arg[3]
                   /\ RelPtrAsPtr(mem, e + ValueField) = c.arg[4]
                   /\ e = entry(mem, p, 0) + (i - 1) * EntrySize
           /\ entry(mem, p, 0) % EntryAlign = 0
           /\ log[5 + 3 * n].call = "pop_scratch" /\ log[5 + 3 * n].arg = <<"resolvers">>
           /\ log[6 + 3 * n].call = "pop_scratch" /\ log[6 + 3 * n].arg = <<"entries">>
           /\ scratch = <<>>

\* C10 witness: a two-entry map has been built whose slot order differs from
\* the input order.
C10_Witness ==
    /\ status = "ok"
    /\ maps[1] # NoPos
    /\ maps[2] = NoPos
    /\ Len(src[1]) = 2
    /\ KeyAtSlot(1, 0) = src[1][2][1]
    /\ Len(log) = NumCalls(2)

\* C4: iteration completeness.  Every iterator yields exactly len() items
\* before it returns None, and the keys that keys(), iter() and iter_pin()
\* have yielded when exhausted are exactly the construction keys, each once.
C4_IterationComplete ==
    IsSome(it) =>
        LET i == Unwrap(it)
            n == len(mem, maps[i.map])
            ks == {Deref(mem, ItemKey(i.kind, yielded[j])) : j \in 1..Len(yielded)}
        IN /\ n = Len(src[i.map])
           /\ Len(yielded) + i.raw.remaining = n
           /\ (ret.op = "next" /\ ret.val = None) => Len(yielded) = n
           /\ (ret.op = "next" /\ IsSome(ret.val)) =>
                  /\ Len(yielded) <= n
                  /\ yielded[Len(yielded)] = Unwrap(ret.val)
           /\ (i.raw.remaining = 0 /\ i.kind \in {"iter", "iter_pin", "keys"}) =>
                  /\ ks = KeysOf(src[i.map])
                  /\ Cardinality(ks) = Len(yielded)
           /\ (i.raw.remaining = 0 /\ i.kind \in {"values", "values_pin"}) =>
                  Cardinality({yielded[j] : j \in 1..Len(yielded)}) = n

\* C4 witness: keys() over a two-entry map has yielded both keys and then
\* returned None.
C4_Witness ==
    /\ IsSome(it)
    /\ Unwrap(it).kind = "keys"
    /\ Len(yielded) = 2
    /\ ret.op = "next"
    /\ ret.val = None

\* The (key, value) pairs a map was built from, as a set.
SrcPairs(id) == {src[id][i] : i \in 1..Len(src[id])}

\* C5: map equality is order-independent and exact.  a == b holds exactly
\* when the two maps were built from the same set of pairs, which is exactly
\* when the lengths agree and every key of a resolves in b to an equal
\* value; and a == b agrees with b == a.
C5_Equality ==
    /\ \A a \in Built, b \in Built :
         LET e == eq(mem, maps[a], maps[b])
         IN /\ e <=> (SrcPairs(a) = SrcPairs(b))
            /\ e <=> /\ len(mem, maps[a]) = len(mem, maps[b])
                     /\ \A k \in KeysOf(src[a]) :
                          LET g == get(mem, maps[b], k)
                          IN /\ IsSome(g)
                             /\ Deref(mem, Unwrap(g)) = SrcValue(src[a], k)
            /\ e <=> eq(mem, maps[b], maps[a])
    /\ ret.op = "eq" => ret.val = Bool(SrcPairs(ret.map) = SrcPairs(ret.key))

\* C5 witness: two two-entry maps built from the same pairs in different
\* input orders were compared and found equal.
C5_Witness ==
    /\ ret.op = "eq"
    /\ ret.map = 1
    /\ ret.key = 2
    /\ Len(src[1]) = 2
    /\ src[1] # src[2]
    /\ SrcPairs(1) = SrcPairs(2)
    /\ ret.val = Bool(TRUE)

\* The slots whose value has been handed out as a Pin<&mut V> and may still
\* be written: the one get_pin / get_key_value_pin just returned, and those
\* the live pinned iterator has yielded.
PinnedSlots ==
    (IF ret.op \in {"get_pin", "get_key_value_pin"} /\ IsSome(ret.val)
     THEN {Unwrap(find(mem, maps[ret.map], ret.key))} ELSE {})
    \cup
    (IF IsSome(it) THEN (IF Unwrap(it).pin THEN 0..(Len(yielded) - 1) ELSE {}) ELSE {})

\* The position of the value data of a slot of map 1.
ValueDataOf(slot) == RelPtrAsPtr(mem, entry(mem, maps[1], slot) + ValueField)

\* What no step on a built map changes: everything but the value data of the
\* slots handed out.
PinFrame ==
    (maps[1] # NoPos /\ maps'[1] = maps[1]) =>
        /\ Len(mem') = Len(mem)
        /\ \A q \in 0..(Len(mem) - 1) :
             Cell(mem', q) # Cell(mem, q) => q \in {ValueDataOf(sl) : sl \in PinnedSlots}
        /\ len(mem', maps[1]) = len(mem, maps[1])
        /\ \A k \in Keys : find(mem', maps[1], k) = find(mem, maps[1], k)

\* Every construction key resolves to the slot the index gave it and holds
\* its key; every other key resolves to None.
KeysInPlace ==
    maps[1] # NoPos =>
        /\ len(mem, maps[1]) = Len(src[1])
        /\ \A k \in Keys :
             IF k \in KeysOf(src[1])
             THEN /\ find(mem, maps[1], k) = hash_index_index(mem, maps[1] + IndexField, k)
                  /\ IsSome(find(mem, maps[1], k))
                  /\ Deref(mem, entry(mem, maps[1], Unwrap(find(mem, maps[1], k))) + KeyField) = k
             ELSE find(mem, maps[1], k) = None

\* C9: pinned mutation is value-only.  Through any sequence of get_pin,
\* get_key_value_pin, iter_pin and values_pin calls and writes through the
\* references they return, the length, the index, the stored keys and the
\* slot of every key stay as built; only the value data of the slots handed
\* out changes.
C9_PinnedValueOnly == [][PinFrame]_vars /\ []KeysInPlace

\* C9 witness: a pinned iterator is live, and the value of a key differs
\* from the one it was built with.
C9_Witness ==
    /\ IsSome(it)
    /\ Unwrap(it).kind = "iter_pin"
    /\ Len(yielded) = 2
    /\ \E k \in KeysOf(src[1]) :
         /\ IsSome(get(mem, maps[1], k))
         /\ Deref(mem, Unwrap(get(mem, maps[1], k))) # SrcValue(src[1], k)

\* C7: weak round trip.  serialize_from_ref(None) gives RcWeakResolver::None
\* without a serializer call, and resolving it writes the tag 0 and nothing
\* else, after which upgrade() is None; serialize_from_ref(Some(v)) gives
\* RcWeakResolver::Some, and resolving it writes the tag 1 followed by an
\* ArchivedRc, after which upgrade() is that ArchivedRc and its get() is the
\* archived v.  upgrade() never panics.
C7_WeakRoundTrip ==
    /\ \A j \in 1..Len(pending) :
         pending[j].kind = "weak" =>
            IF IsNone(pending[j].value)
            THEN pending[j].resolver = None /\ pending[j].calls = 0
            ELSE IsSome(pending[j].resolver) /\ pending[j].calls > 0
    /\ \A j \in 1..Len(nodes) :
         nodes[j].kind = "weak" =>
            LET n == nodes[j]
                u == upgrade(mem, n.pos)
            IN IF IsNone(n.value)
               THEN /\ n.resolver = None
                    /\ n.calls = 0
                    /\ Cell(mem, n.pos + WeakTagField) = <<"tag", TagNone>>
                    /\ Cell(mem, n.pos + WeakRcField) = <<"uninit", 0>>
                    /\ u = None
               ELSE /\ IsSome(n.resolver)
                    /\ Cell(mem, n.pos + WeakTagField) = <<"tag", TagSome>>
                    /\ Cell(mem, n.pos + WeakRcField)[1] = "relptr"
                    /\ u = Some(n.pos + WeakRcField)
                    /\ Cell(mem, rc_get(mem, Unwrap(u))) = <<"body", ContentOf(Unwrap(n.value))>>
    /\ ret.op = "upgrade" =>
         /\ ret.val # Panic
         /\ IsNone(ret.val) <=> IsNone(nodes[ret.map].value)

\* C7 witness: a null and a live weak pointer have both been resolved, and
\* upgrade() on the live one returned its ArchivedRc.
C7_Witness ==
    /\ \E j \in 1..Len(nodes) : nodes[j].kind = "weak" /\ IsNone(nodes[j].value)
    /\ ret.op = "upgrade"
    /\ IsSome(ret.val)
    /\ IsSome(nodes[ret.map].value)

\* The pos an RcResolver (bare, or inside an RcWeakResolver::Some) carries.
RcPosOf(e) == IF e.kind = "rc" THEN e.resolver.pos ELSE Unwrap(e.resolver).pos

\* The (identity, pos) pairs of the resolvers obtained so far, resolved or not.
RcEntries ==
    {<<Unwrap(pending[j].value), RcPosOf(pending[j])>> :
        j \in {i \in 1..Len(pending) : IsSome(pending[i].value)}}
    \cup {<<Unwrap(nodes[j].value), RcPosOf(nodes[j])>> :
            j \in {i \in 1..Len(nodes) : IsSome(nodes[i].value)}}

\* The position a resolved node dereferences to.
TargetOf(n) == rc_get(mem, IF n.kind = "rc" THEN n.pos ELSE n.pos + WeakRcField)

\* C8: shared dedup.  Within one session the body of a value is serialized at
\* most once per source identity, all resolvers obtained for one identity
\* carry the same pos, and all nodes resolved from them dereference to that
\* one position, which holds the archived value.
C8_SharedDedup ==
    /\ \A id \in Ids :
         Cardinality({i \in 1..Len(log) :
                        /\ log[i].call = "serialize_unsized"
                        /\ log[i].arg = <<id>>
                        /\ log[i].ok}) <= 1
    /\ Cardinality({q \in 0..(Len(mem) - 1) : Cell(mem, q)[1] = "body"})
          = Cardinality({id \in Ids : shared[id] # NoPos})
    /\ \A e1, e2 \in RcEntries : e1[1] = e2[1] => e1[2] = e2[2]
    /\ \A j \in 1..Len(nodes) :
         IsSome(nodes[j].value) =>
            /\ TargetOf(nodes[j]) = RcPosOf(nodes[j])
            /\ TargetOf(nodes[j]) = shared[Unwrap(nodes[j].value)]
            /\ Cell(mem, TargetOf(nodes[j])) = <<"body", ContentOf(Unwrap(nodes[j].value))>>
    /\ \A j1, j2 \in 1..Len(nodes) :
         (/\ IsSome(nodes[j1].value)
          /\ IsSome(nodes[j2].value)
          /\ Unwrap(nodes[j1].value) = Unwrap(nodes[j2].value))
            => TargetOf(nodes[j1]) = TargetOf(nodes[j2])

\* C8 witness: an Rc and a Weak of one identity resolve to one position,
\* and a value of another identity and equal content to a different one.
C8_Witness ==
    \E j1, j2, j3 \in 1..Len(nodes) :
        /\ nodes[j1].kind = "rc" /\ nodes[j1].value = Some(1)
        /\ nodes[j2].kind = "weak" /\ nodes[j2].value = Some(1)
        /\ nodes[j3].value = Some(2)
        /\ ContentOf(1) = ContentOf(2)
        /\ TargetOf(nodes[j1]) = TargetOf(nodes[j2])
        /\ TargetOf(nodes[j3]) # TargetOf(nodes[j1])

\* C11: iterator stepping.  For a map of length n, the k-th call to next on
\* an iterator from iter / keys / values / iter_pin / values_pin
\* (1 <= k <= n) yields the entry at physical slot k - 1; after k calls
\* size_hint is (max(n - k, 0), Some(max(n - k, 0))); every call after the
\* n-th returns None, the remaining count stays at zero and the cursor stays
\* at slot n; and an iterator that has not been advanced stands at slot 0
\* with n entries remaining, whatever an earlier iterator did.
C11_IteratorStepping ==
    IsSome(it) =>
        LET i == Unwrap(it)
            p == maps[i.map]
            n == len(mem, p)
            left == Max(n - calls, 0)
        IN /\ size_hint(i.raw) = <<left, Some(left)>>
           /\ i.raw.remaining >= 0
           /\ i.raw.current = entry(mem, p, n - left)
           /\ i.raw.current <= entry(mem, p, n)
           /\ Len(yielded) = n - left
           /\ \A j \in 1..Len(yielded) :
                yielded[j] = ItemOf(i.kind, entry(mem, p, j - 1))
           /\ (ret.op = "next" /\ calls <= n) =>
                  /\ calls >= 1
                  /\ ret.val = Some(ItemOf(i.kind, entry(mem, p, calls - 1)))
           /\ (ret.op = "next" /\ calls > n) => ret.val = None
           /\ calls = 0 =>
                  /\ i.raw = raw_iter(mem, p)
                  /\ i.raw.current = entry(mem, p, 0)
                  /\ i.raw.remaining = n
                  /\ yielded = <<>>

\* C11 witness: after an earlier iterator was advanced, a values_pin
\* iterator over a two-entry map has been called four times: it yielded
\* slots 0 and 1 and then returned None twice.
C11_Witness ==
    /\ earlier
    /\ IsSome(it)
    /\ Unwrap(it).kind = "values_pin"
    /\ len(mem, maps[Unwrap(it).map]) = 2
    /\ calls = 4
    /\ Len(yielded) = 2
    /\ ret.op = "next"
    /\ ret.val = None

====
